---- MODULE Spec2Model ----
(***************************************************************************)
(* A model of robotplanner.py: the A* search (a_star) over a grid World,   *)
(* driven by the list-backed PriorityQueue, the backward walk over the     *)
(* parent map, and the two consumers of the returned path in __main__      *)
(* (graphical_route and the directional encoder loop).                     *)
(*                                                                         *)
(* A cell Vector2(x, y) is the tuple <<x, y>>; Python's None is the empty   *)
(* tuple; a dict is a function whose DOMAIN is the dict's key set.          *)
(***************************************************************************)
EXTENDS Integers, Sequences, FiniteSets, TLC

VARIABLES world, start, end, pc, looking_at, parent, cost, current,
          expanded, revisited, the_point, the_path, path, graphics, idx,
          prev_point, displayed, printed, to_display, exit_code

vars == <<world, start, end, pc, looking_at, parent, cost, current,
          expanded, revisited, the_point, the_path, path, graphics, idx,
          prev_point, displayed, printed, to_display, exit_code>>

\* expanded and revisited are history variables: the cells the loop has
\* popped and expanded so far, and whether the latest pop was of such a cell.

\* Every grid of at most MaxW columns and MaxH rows is searched.
MaxW == 2
MaxH == 2

None == <<>>

Vector2(x, y) == <<x, y>>

X(p) == p[1]

Y(p) == p[2]

Abs(n) == IF n < 0 THEN -n ELSE n

Reverse(s) == [i \in 1..Len(s) |-> s[Len(s) + 1 - i]]

\* The set of the elements of a sequence.
Range(s) == {s[i] : i \in 1..Len(s)}

(***************************************************************************)
(* World                                                                   *)
(***************************************************************************)

\* World.__init__: data is the list of rows, each a list of "0"/"1".
World(rows) == [data |-> rows, width |-> Len(rows[1]), height |-> Len(rows)]

point_inside(w, p) ==
    (0 <= X(p) /\ X(p) < w.width) /\ (0 <= Y(p) /\ Y(p) < w.height)

\* World.__getitem__ with a point key: self.data[y][x] (0-based in Python).
GetItem(w, p) == w.data[Y(p) + 1][X(p) + 1]

is_empty(w, p) == GetItem(w, p) = "0"

\* Variant: the `up` candidate is left out of the tuple.
potentialNoUp(p) == << Vector2(X(p) - 1, Y(p)), Vector2(X(p) + 1, Y(p)),
                       Vector2(X(p), Y(p) + 1) >>

\* Variant: the `down` candidate is left out of the tuple.
potentialNoDown(p) == << Vector2(X(p) - 1, Y(p)), Vector2(X(p) + 1, Y(p)),
                         Vector2(X(p), Y(p) - 1) >>

\* The candidates in the order of the tuple `potential`.
potential(p) == << Vector2(X(p) - 1, Y(p)), Vector2(X(p) + 1, Y(p)),
                   Vector2(X(p), Y(p) + 1), Vector2(X(p), Y(p) - 1) >>

\* Variant: the is_empty test is dropped.
NeighbourOkNoWall(w, n) == point_inside(w, n)

NeighbourOk(w, n) == point_inside(w, n) /\ is_empty(w, n)

neighbours(w, p) == SelectSeq(potential(p), LAMBDA n : NeighbourOk(w, n))

cartesian_distance(pos1, pos2) ==
    Abs(X(pos1) - X(pos2)) + Abs(Y(pos1) - Y(pos2))

(***************************************************************************)
(* PriorityQueue: data is a list of <<priority, cell>> pairs.              *)
(***************************************************************************)

empty(data) == data = <<>>

put(data, cell, priority) == Append(data, <<priority, cell>>)

\* Variant: the sort is descending.
GoesBeforeDesc(e, x) == e[1] > x[1]

\* e goes before an entry of sorted list s exactly when its key is smaller,
\* so entries of equal priority keep their order (list.sort is stable).
GoesBefore(e, x) == e[1] < x[1]

\* list.sort(key=...): entry j of data ends up before entry i when it goes
\* before it by key, or when neither goes before the other and j came first.
Precedes(data, j, i) ==
    \/ GoesBefore(data[j], data[i])
    \/ (~GoesBefore(data[i], data[j]) /\ j < i)

SortByPriority(data) ==
    [k \in 1..Len(data) |->
        data[CHOOSE i \in 1..Len(data) :
                Cardinality({j \in 1..Len(data) : Precedes(data, j, i)})
                    = k - 1]]

\* Variant: pop(0) is replaced by a read of element 0.
PopRestKeep(data) == IF empty(data) THEN data ELSE SortByPriority(data)

\* pop: the value returned, and the list left behind (sorted in place).
PopValue(data) == IF empty(data) THEN None ELSE SortByPriority(data)[1][2]

PopRest(data) == IF empty(data) THEN data ELSE Tail(SortByPriority(data))

(***************************************************************************)
(* a_star                                                                  *)
(***************************************************************************)

\* dict assignment d[k] = v
DictSet(d, k, v) == [c \in (DOMAIN d) \cup {k} |-> IF c = k THEN v ELSE d[c]]

\* Variant: the comparison is reversed.
ImprovesGreater(c, new_point, new_cost) ==
    new_point \notin DOMAIN c \/ new_cost > c[new_point]

\* Variant: an equal cost also counts as an improvement.
ImprovesOrEqual(c, new_point, new_cost) ==
    new_point \notin DOMAIN c \/ new_cost <= c[new_point]

Improves(c, new_point, new_cost) ==
    new_point \notin DOMAIN c \/ new_cost < c[new_point]

\* Variant: the parent of an already recorded cell is left as it was.
RelaxKeepParent(st, cur, new_point) ==
    LET new_cost == st.cost[cur] + 1 IN
    IF Improves(st.cost, new_point, new_cost)
    THEN [cost   |-> DictSet(st.cost, new_point, new_cost),
          data   |-> put(st.data, new_point,
                         new_cost + cartesian_distance(end, new_point)),
          parent |-> IF new_point \in DOMAIN st.parent THEN st.parent
                     ELSE DictSet(st.parent, new_point, cur)]
    ELSE st

\* One pass of the body of `for new_point in the_world.neighbours(current)`.
Relax(st, cur, new_point) ==
    LET new_cost == st.cost[cur] + 1 IN
    IF Improves(st.cost, new_point, new_cost)
    THEN [cost   |-> DictSet(st.cost, new_point, new_cost),
          data   |-> put(st.data, new_point,
                         new_cost + cartesian_distance(end, new_point)),
          parent |-> DictSet(st.parent, new_point, cur)]
    ELSE st

\* The whole neighbour loop, from the maps and frontier st, over nbrs.
\* The state after one neighbour is bound as a value before the rest run.
RECURSIVE Expand(_, _, _)
Expand(st, cur, nbrs) ==
    IF nbrs = <<>> THEN st
    ELSE CHOOSE r \in {Expand(s1, cur, Tail(nbrs)) :
                          s1 \in {Relax(st, cur, Head(nbrs))}} : TRUE

\* looking_at = PriorityQueue(); put(the_start, 0); parent, cost
AStarEnter ==
    /\ pc = "call"
    /\ looking_at' = put(<<>>, start, 0)
    /\ parent' = DictSet(<<>>, start, None)
    /\ cost' = DictSet(<<>>, start, 0)
    /\ pc' = "loop"
    /\ UNCHANGED <<world, start, end, current, expanded, revisited, the_point,
                   the_path, path, graphics, idx, prev_point, displayed,
                   printed, to_display, exit_code>>

\* Variant: the destination test comes after the neighbour loop.
LoopGoalAfterExpand ==
    /\ pc = "loop"
    /\ ~empty(looking_at)
    /\ PopValue(looking_at) = end
    /\ \E cur \in {PopValue(looking_at)} :
       \E st \in {Expand([cost |-> cost, data |-> PopRest(looking_at),
                          parent |-> parent], cur, neighbours(world, cur))} :
          /\ current' = cur
          /\ cost' = st.cost
          /\ looking_at' = st.data
          /\ parent' = st.parent
    /\ revisited' = FALSE
    /\ the_point' = end
    /\ the_path' = <<end>>
    /\ pc' = "walk"
    /\ UNCHANGED <<world, start, end, expanded, path, graphics, idx,
                   prev_point, displayed, printed, to_display, exit_code>>

\* An iteration that pops the_end: break, then the_point and the_path are set.
LoopGoal ==
    /\ pc = "loop"
    /\ ~empty(looking_at)
    /\ PopValue(looking_at) = end
    /\ current' = PopValue(looking_at)
    /\ looking_at' = PopRest(looking_at)
    /\ revisited' = FALSE
    /\ the_point' = end
    /\ the_path' = <<end>>
    /\ pc' = "walk"
    /\ UNCHANGED <<world, start, end, parent, cost, expanded, path, graphics, idx,
                   prev_point, displayed, printed, to_display, exit_code>>

\* An iteration that pops another cell and runs the whole neighbour loop.
LoopExpand ==
    /\ pc = "loop"
    /\ ~empty(looking_at)
    /\ PopValue(looking_at) # end
    /\ \E cur \in {PopValue(looking_at)} :
       \E st \in {Expand([cost |-> cost, data |-> PopRest(looking_at),
                          parent |-> parent], cur, neighbours(world, cur))} :
          /\ current' = cur
          /\ expanded' = expanded \cup {cur}
          /\ revisited' = (cur \in expanded)
          /\ cost' = st.cost
          /\ looking_at' = st.data
          /\ parent' = st.parent
    /\ UNCHANGED <<world, start, end, pc, the_point, the_path, path,
                   graphics, idx, prev_point, displayed, printed,
                   to_display, exit_code>>

\* The while condition fails: the frontier is empty.
LoopExhausted ==
    /\ pc = "loop"
    /\ empty(looking_at)
    /\ the_point' = end
    /\ the_path' = <<end>>
    /\ pc' = "walk"
    /\ UNCHANGED <<world, start, end, looking_at, parent, cost, current,
                   expanded, revisited, path, graphics, idx, prev_point, displayed,
                   printed, to_display, exit_code>>

\* the_point = parent[the_point]; the_path.append(the_point)
WalkStep ==
    /\ pc = "walk"
    /\ the_point # start
    /\ the_point \in DOMAIN parent
    /\ the_point' = parent[the_point]
    /\ the_path' = Append(the_path, parent[the_point])
    /\ UNCHANGED <<world, start, end, pc, looking_at, parent, cost, current,
                   expanded, revisited, path, graphics, idx, prev_point, displayed,
                   printed, to_display, exit_code>>

\* parent[the_point] raises KeyError: err("No path could be found.")
WalkKeyError ==
    /\ pc = "walk"
    /\ the_point # start
    /\ the_point \notin DOMAIN parent
    /\ printed' = <<"No path could be found.">>
    /\ exit_code' = 1
    /\ pc' = "exit"
    /\ UNCHANGED <<world, start, end, looking_at, parent, cost, current,
                   expanded, revisited, the_point, the_path, path, graphics, idx,
                   prev_point, displayed, to_display>>

\* the_path.reverse(); return the_path; then `if GRAPHICAL_ROUTE` picks the
\* consumer.  The flag is a command-line input read only at this branch.
Return ==
    /\ pc = "walk"
    /\ the_point = start
    /\ path' = Reverse(the_path)
    /\ \E g \in BOOLEAN :
          /\ graphics' = g
          /\ pc' = IF g THEN "render" ELSE "encode"
    /\ idx' = 1
    /\ prev_point' = None
    /\ displayed' = FALSE
    /\ UNCHANGED <<world, start, end, looking_at, parent, cost, current,
                   expanded, revisited, the_point, the_path, printed, to_display,
                   exit_code>>

(***************************************************************************)
(* The consumers of the path                                               *)
(***************************************************************************)

Glyph(w, p, pth) ==
    IF p = pth[1] THEN "@"
    ELSE IF p = pth[Len(pth)] THEN "$"
    ELSE IF p \in Range(pth) THEN "o"
    ELSE IF GetItem(w, p) = "1" THEN "X"
    ELSE "."

RenderRows(w, pth) ==
    [y \in 1..w.height |->
        [x \in 1..w.width |-> Glyph(w, Vector2(x - 1, y - 1), pth)]]

graphical_route ==
    /\ pc = "render"
    /\ to_display' = RenderRows(world, path)
    /\ exit_code' = 0
    /\ pc' = "exit"
    /\ UNCHANGED <<world, start, end, looking_at, parent, cost, current,
                   expanded, revisited, the_point, the_path, path, graphics, idx,
                   prev_point, displayed, printed>>

\* Variant: the letters of the two x branches are exchanged.
LetterSwapped(prev, point) ==
    IF X(point) > X(prev) THEN "L"
    ELSE IF X(point) < X(prev) THEN "R"
    ELSE IF Y(point) > Y(prev) THEN "D"
    ELSE "U"

\* The if/elif chain choosing the letter for the move prev -> point.
Letter(prev, point) ==
    IF X(point) > X(prev) THEN "R"
    ELSE IF X(point) < X(prev) THEN "L"
    ELSE IF Y(point) > Y(prev) THEN "D"
    ELSE "U"

\* One iteration of `for point in path`.
EncodeStep ==
    /\ pc = "encode"
    /\ idx <= Len(path)
    /\ LET point == path[idx] IN
          /\ IF prev_point # None
             THEN /\ printed' = printed
                                \o (IF displayed THEN <<" ">> ELSE <<>>)
                                \o <<Letter(prev_point, point)>>
                  /\ displayed' = TRUE
             ELSE UNCHANGED <<printed, displayed>>
          /\ prev_point' = point
    /\ idx' = idx + 1
    /\ UNCHANGED <<world, start, end, pc, looking_at, parent, cost, current,
                   expanded, revisited, the_point, the_path, path, graphics,
                   to_display, exit_code>>

\* The loop is over: print() ends the line and the program exits normally.
EncodeEnd ==
    /\ pc = "encode"
    /\ idx > Len(path)
    /\ printed' = Append(printed, "\n")
    /\ exit_code' = 0
    /\ pc' = "exit"
    /\ UNCHANGED <<world, start, end, looking_at, parent, cost, current,
                   expanded, revisited, the_point, the_path, path, graphics, idx,
                   prev_point, displayed, to_display>>

(***************************************************************************)
(* Inputs                                                                  *)
(***************************************************************************)

Rows(w, h) == [1..h -> [1..w -> {"0", "1"}]]

AllGrids == UNION {Rows(w, h) : w \in 1..MaxW, h \in 1..MaxH}

\* The obstacle grid of the specification's obstacle test.
ObstacleGrid == << <<"0", "0", "1">>,
                   <<"1", "0", "1">>,
                   <<"0", "0", "0">> >>

\* The open 5x5 grid.
OpenGrid == [y \in 1..5 |-> [x \in 1..5 |-> "0"]]

\* A 4x4 grid on which a cell is first reached by a detour and improved later.
DetourGrid == << <<"0", "0", "0", "0">>,
                 <<"0", "0", "1", "0">>,
                 <<"1", "0", "0", "0">>,
                 <<"0", "1", "0", "0">> >>

\* A 3x3 grid whose only route from (0,1) to (1,0) goes round the centre.
SpiralGrid == << <<"1", "0", "0">>,
                 <<"0", "1", "0">>,
                 <<"0", "0", "0">> >>

Fixtures == {ObstacleGrid, OpenGrid, DetourGrid, SpiralGrid}

Cells(w) == {Vector2(x, y) : x \in 0..(w.width - 1), y \in 0..(w.height - 1)}

Passable(w) == {p \in Cells(w) : is_empty(w, p)}

\* The state at the call `path = a_star(start, end, world)`: __main__ has
\* built the world and both points passed the inside and is_empty checks.
Init ==
    /\ \E rows \in AllGrids \cup Fixtures : world = World(rows)
    /\ start \in Passable(world)
    /\ end \in Passable(world)
    /\ pc = "call"
    /\ looking_at = <<>>
    /\ parent = <<>>
    /\ cost = <<>>
    /\ current = None
    /\ expanded = {}
    /\ revisited = FALSE
    /\ the_point = None
    /\ the_path = <<>>
    /\ path = <<>>
    /\ graphics = FALSE
    /\ idx = 0
    /\ prev_point = None
    /\ displayed = FALSE
    /\ printed = <<>>
    /\ to_display = <<>>
    /\ exit_code = -1

Next ==
    \/ AStarEnter
    \/ LoopGoal
    \/ LoopExpand
    \/ LoopExhausted
    \/ WalkStep
    \/ WalkKeyError
    \/ Return
    \/ graphical_route
    \/ EncodeStep
    \/ EncodeEnd

Spec == Init /\ [][Next]_vars

\* The program is sequential: a step that can be taken is taken.
FairSpec == Spec /\ WF_vars(Next)

(***************************************************************************)
(* Reference notions used by the properties                                *)
(***************************************************************************)

\* The passable cells one 4-directional move away from p.
Moves(w, p) == {q \in Passable(w) : cartesian_distance(p, q) = 1}

\* Breadth-first distance by layers; -1 when the target is never met.
RECURSIVE Layers(_, _, _, _, _)
Layers(w, frontier, seen, target, d) ==
    IF target \in frontier THEN d
    ELSE LET next == (UNION {Moves(w, p) : p \in frontier}) \ seen IN
         IF next = {} THEN -1
         ELSE Layers(w, next, seen \cup next, target, d + 1)

ShortestDistance(w, s, e) == Layers(w, {s}, {s}, e, 0)

Reachable == ShortestDistance(world, start, end) >= 0

\* a_star has returned its path to __main__.
Returned == pc \in {"render", "encode"} \/ (pc = "exit" /\ exit_code = 0)

NoPathMessage == <<"No path could be found.">>

\* A cell occurs twice in the frontier, the later time with a lower priority.
Rerecorded ==
    \E i, j \in 1..Len(looking_at) :
        /\ looking_at[i][2] = looking_at[j][2]
        /\ looking_at[i][1] > looking_at[j][1]

\* The move a letter stands for.
Move(p, letter) ==
    CASE letter = "R" -> Vector2(X(p) + 1, Y(p))
      [] letter = "L" -> Vector2(X(p) - 1, Y(p))
      [] letter = "D" -> Vector2(X(p), Y(p) + 1)
      [] letter = "U" -> Vector2(X(p), Y(p) - 1)

\* The cells visited when the letters are applied to p, p included.
RECURSIVE Replay(_, _)
Replay(p, letters) ==
    IF letters = <<>> THEN <<p>>
    ELSE <<p>> \o Replay(Move(p, Head(letters)), Tail(letters))

Letters(out) == SelectSeq(out, LAMBDA c : c \in {"R", "L", "D", "U"})

\* The text the encoder prints for a sequence of letters.
RECURSIVE Joined(_)
Joined(letters) ==
    IF letters = <<>> THEN <<>>
    ELSE IF Len(letters) = 1 THEN letters
    ELSE <<Head(letters), " ">> \o Joined(Tail(letters))

\* The number of parent links from n to start; -1 if start is not met
\* within fuel links.
RECURSIVE ChainLength(_, _)
ChainLength(n, fuel) ==
    IF n = start THEN 0
    ELSE IF fuel = 0 \/ n \notin DOMAIN parent THEN -1
    ELSE LET rest == ChainLength(parent[n], fuel - 1) IN
         IF rest < 0 THEN -1 ELSE rest + 1

(***************************************************************************)
(* Properties                                                              *)
(***************************************************************************)

\* C1: a returned path has as many edges as the breadth-first shortest
\* 4-directional distance from start to end over passable cells; on the open
\* 5x5 grid from (0,0) to (4,4) that is 8 steps.
C1_ShortestPath ==
    Returned =>
        /\ Len(path) - 1 = ShortestDistance(world, start, end)
        /\ (world.data = OpenGrid /\ start = <<0, 0>> /\ end = <<4, 4>>)
               => Len(path) - 1 = 8

C1_Witness ==
    /\ pc = "exit" /\ exit_code = 0
    /\ world.data = OpenGrid /\ start = <<0, 0>> /\ end = <<4, 4>>
    /\ Len(path) = 9

\* C2: a returned path starts with start, ends with end, moves by Manhattan
\* distance 1 between consecutive cells, stays on in-bounds passable cells
\* and visits no cell twice.
C2_PathWellFormed ==
    Returned =>
        /\ Len(path) >= 1
        /\ path[1] = start
        /\ path[Len(path)] = end
        /\ \A i \in 1..(Len(path) - 1) :
               cartesian_distance(path[i], path[i + 1]) = 1
        /\ \A i \in 1..Len(path) :
               point_inside(world, path[i]) /\ is_empty(world, path[i])
        /\ \A i, j \in 1..Len(path) : path[i] = path[j] => i = j

C2_Witness ==
    /\ Returned
    /\ Len(path) >= 5
    /\ \E p \in Cells(world) : ~is_empty(world, p)
    /\ Len(path) - 1 > cartesian_distance(start, end)

\* C3: when end is unreachable the run ends with the "No path could be
\* found." error exit and neither consumer of the path runs (a path is
\* returned, rendered or encoded only when end is reachable); when end is
\* reachable that error is never reported.
C3_NoPathFound ==
    /\ (Returned \/ path # <<>> \/ to_display # <<>>
                 \/ Letters(printed) # <<>>) => Reachable
    /\ (pc = "exit" /\ ~Reachable)
           => (exit_code = 1 /\ printed = NoPathMessage)
    /\ (exit_code = 1 \/ printed = NoPathMessage) => ~Reachable

C3_Witness ==
    /\ pc = "exit" /\ exit_code = 1 /\ printed = NoPathMessage
    /\ ~Reachable
    /\ Cardinality(expanded) >= 2

\* C4 as stated: on the obstacle grid, from (0,0) to (2,2), the returned path
\* has 5 steps (edges).
C4_Original ==
    (Returned /\ world.data = ObstacleGrid
              /\ start = <<0, 0>> /\ end = <<2, 2>>)
        => Len(path) - 1 = 5

\* C4 amended: on the obstacle grid, from (0,0) to (2,2), the run returns a
\* path of 5 cells, that is 4 steps, and 4 is the shortest distance.
C4_ObstacleGrid ==
    (world.data = ObstacleGrid /\ start = <<0, 0>> /\ end = <<2, 2>>) =>
        /\ ShortestDistance(world, start, end) = 4
        /\ Returned => (Len(path) = 5 /\ Len(path) - 1 = 4)
        /\ pc = "exit" => exit_code = 0

C4_Witness ==
    /\ pc = "exit"
    /\ world.data = ObstacleGrid /\ start = <<0, 0>> /\ end = <<2, 2>>
    /\ path = << <<0, 0>>, <<1, 0>>, <<1, 1>>, <<1, 2>>, <<2, 2>> >>

\* C5: when start = end the first pop yields start, no neighbour is
\* expanded, cost and parent keep only the entry of start, and the path
\* returned is [start].
C5_StartIsEnd ==
    (start = end /\ pc # "call") =>
        /\ DOMAIN cost = {start} /\ cost[start] = 0
        /\ DOMAIN parent = {start} /\ parent[start] = None
        /\ expanded = {}
        /\ pc # "loop" => (current = start /\ looking_at = <<>>)
        /\ pc = "walk" => the_path = <<start>>
        /\ Returned => path = <<start>>
        /\ pc = "exit" => exit_code = 0

C5_Witness ==
    /\ start = end
    /\ pc = "exit" /\ exit_code = 0
    /\ path = <<start>>
    /\ neighbours(world, start) # <<>>

\* C6: the encoder prints one letter per consecutive pair of path cells,
\* separated by single spaces, and the letters applied in order to start
\* visit exactly the cells of the path.
C6_EncoderRoundTrip ==
    (pc = "exit" /\ exit_code = 0 /\ ~graphics) =>
        /\ Len(Letters(printed)) = Len(path) - 1
        /\ Replay(start, Letters(printed)) = path
        /\ printed = Append(Joined(Letters(printed)), "\n")

C6_Witness ==
    /\ pc = "exit" /\ exit_code = 0 /\ ~graphics
    /\ {"R", "L", "D", "U"} \subseteq Range(printed)

\* C7: every call of a_star ends: the main loop is left (the destination is
\* popped or the frontier is empty) and the backward walk over parent, the
\* only way on from the loop, is left too (start is reached and the path is
\* returned, or a key is missing and the run exits).
C7_Termination == <>(pc \in {"render", "encode", "exit"})

C7_Witness ==
    /\ pc = "exit"
    /\ looking_at = <<>>
    /\ Cardinality(expanded) >= 6
    /\ Len(the_path) = 1

\* C8: in every step of the search no key leaves cost, no recorded value
\* grows, cost[start] stays 0 and parent[start] stays None.
C8_CostMonotone ==
    [][pc # "call" =>
          /\ DOMAIN cost \subseteq DOMAIN cost'
          /\ \A c \in DOMAIN cost : cost'[c] <= cost[c]
          /\ cost'[start] = 0
          /\ parent'[start] = None]_vars

C8_Witness ==
    /\ pc = "loop"
    /\ Rerecorded

\* C9: an iteration that pops a cell already popped and expanded earlier
\* changes no entry of cost or parent and puts nothing in the frontier.
C9_StaleHarmless ==
    [][(pc = "loop" /\ ~empty(looking_at)
                    /\ PopValue(looking_at) \in expanded) =>
          /\ cost' = cost
          /\ parent' = parent
          /\ looking_at' = PopRest(looking_at)]_vars

C9_Witness ==
    /\ revisited
    /\ current \in expanded
    /\ pc = "loop"

\* C10: cost and parent have the same keys, and every recorded cell other
\* than start has a recorded passable 4-adjacent parent whose cost is one
\* less, so its parent chain reaches start in exactly cost[n] links.
C10_ParentConsistent ==
    pc # "call" =>
        /\ DOMAIN cost = DOMAIN parent
        /\ \A n \in (DOMAIN cost) \ {start} :
              /\ parent[n] \in DOMAIN cost
              /\ point_inside(world, parent[n]) /\ is_empty(world, parent[n])
              /\ cartesian_distance(n, parent[n]) = 1
              /\ cost[n] = cost[parent[n]] + 1
              /\ ChainLength(n, Cardinality(DOMAIN parent)) = cost[n]

C10_Witness ==
    /\ pc = "loop"
    /\ \E i \in 1..Len(looking_at) :
          cost[looking_at[i][2]] + cartesian_distance(end, looking_at[i][2])
              < looking_at[i][1]
    /\ Cardinality(DOMAIN parent) >= 10

====
